---- MODULE Spec2Model ----
(***************************************************************************)
(* Model of pastry (pastry.go): the in-memory snippet store p.texts, its   *)
(* cache file pastes.gob, and the three surfaces that reach it: the write  *)
(* port (handleWritePaste), the read/command port (handleReadPaste) and    *)
(* the HTTP form (paste).                                                  *)
(*                                                                         *)
(* A byte is a one-character string; "\n" is the newline, and the bytes    *)
(* outside ASCII are named by their hexadecimal value ("xC3", "xA9",       *)
(* "xFF").  A Go string or []byte is a sequence of bytes.                  *)
(***************************************************************************)
EXTENDS Integers, Sequences, FiniteSets, TLC

\* ------------------------------------------------------------------ bounds
\* the store holds at most MaxTexts snippets; the clock stops at MaxClock
MaxTexts == 2
MaxClock == 3
\* the number of connections served at the same time
MaxConns == 2

\* --------------------------------------------------------------- constants
\* buf := make([]byte, 1024*1024)
BufSize == 1024 * 1024

Min(a, b) == IF a < b THEN a ELSE b

\* ------------------------------------------------------ unicode/utf8.Valid
\* Bytes below 0x80 stand alone; 0xC3 leads a two-byte sequence whose second
\* byte must be a continuation byte (0x80..0xBF); 0xFF never occurs in UTF-8.
IsCont(b) == b \in {"xA9"}
IsLead2(b) == b \in {"xC3"}
IsAscii(b) == ~IsCont(b) /\ ~IsLead2(b) /\ b # "xFF"

RECURSIVE ValidFrom(_, _)
ValidFrom(s, i) ==
  IF i > Len(s) THEN TRUE
  ELSE IF IsAscii(s[i]) THEN ValidFrom(s, i + 1)
  ELSE IF IsLead2(s[i]) /\ i + 1 <= Len(s) /\ IsCont(s[i + 1])
       THEN ValidFrom(s, i + 2)
  ELSE FALSE

Valid(s) == ValidFrom(s, 1)

\* ------------------------------------------------------- package strings
\* strings.ReplaceAll(s, "\n", "")
RECURSIVE StripNewlines(_)
StripNewlines(s) ==
  IF s = <<>> THEN <<>>
  ELSE IF Head(s) = "\n" THEN StripNewlines(Tail(s))
  ELSE <<Head(s)>> \o StripNewlines(Tail(s))

\* unicode.IsSpace on the bytes of the model
IsSpace(b) == b \in {" ", "\t", "\n", "\r"}

\* strings.Fields: the maximal runs of non-space bytes, in order.
\* FieldsAcc carries the fields found so far and the field being read.
RECURSIVE FieldsAcc(_, _, _)
FieldsAcc(s, done, cur) ==
  IF s = <<>> THEN (IF cur = <<>> THEN done ELSE Append(done, cur))
  ELSE IF IsSpace(Head(s))
       THEN FieldsAcc(Tail(s), IF cur = <<>> THEN done ELSE Append(done, cur), <<>>)
  ELSE FieldsAcc(Tail(s), done, Append(cur, Head(s)))

Fields(s) == FieldsAcc(s, <<>>, <<>>)

\* sub occurs in s starting at position i (1-based)
HasAt(s, sub, i) ==
  /\ i >= 1
  /\ i + Len(sub) - 1 <= Len(s)
  /\ \A k \in 1..Len(sub) : s[i + k - 1] = sub[k]

\* strings.Index: 0-based position of the first occurrence, -1 if none.
RECURSIVE IndexFrom(_, _, _)
IndexFrom(s, sub, i) ==
  IF i + Len(sub) - 1 > Len(s) THEN -1
  ELSE IF HasAt(s, sub, i) THEN i - 1
  ELSE IndexFrom(s, sub, i + 1)

Index(s, sub) == IndexFrom(s, sub, 1)

\* strings.Cut(s, sep): <<before, after, found>>
Cut(s, sep) ==
  LET i == Index(s, sep)
  IN IF i = -1 THEN <<s, <<>>, FALSE>>
     ELSE <<SubSeq(s, 1, i), SubSeq(s, i + Len(sep) + 1, Len(s)), TRUE>>

\* strings.Split(s, "\n"): the pieces between newlines, empty pieces kept.
RECURSIVE SplitAcc(_, _, _)
SplitAcc(s, done, cur) ==
  IF s = <<>> THEN Append(done, cur)
  ELSE IF Head(s) = "\n" THEN SplitAcc(Tail(s), Append(done, cur), <<>>)
  ELSE SplitAcc(Tail(s), done, Append(cur, Head(s)))

SplitLines(s) == SplitAcc(s, <<>>, <<>>)

\* strings.Trim(s, "\n"): leading and trailing newlines removed.
RECURSIVE TrimLeft(_)
TrimLeft(s) ==
  IF s # <<>> /\ Head(s) = "\n" THEN TrimLeft(Tail(s)) ELSE s

RECURSIVE TrimRight(_)
TrimRight(s) ==
  IF s # <<>> /\ s[Len(s)] = "\n" THEN TrimRight(SubSeq(s, 1, Len(s) - 1)) ELSE s

Trim(s) == TrimRight(TrimLeft(s))

\* ---------------------------------------------------------- strconv.Atoi
DigitVal(b) ==
  CASE b = "0" -> 0 [] b = "1" -> 1 [] b = "2" -> 2 [] b = "3" -> 3
    [] b = "4" -> 4 [] b = "5" -> 5 [] b = "6" -> 6 [] b = "7" -> 7
    [] b = "8" -> 8 [] b = "9" -> 9 [] OTHER -> -1

IsDigit(b) == DigitVal(b) >= 0

RECURSIVE DigitsVal(_, _)
DigitsVal(s, acc) ==
  IF s = <<>> THEN acc ELSE DigitsVal(Tail(s), 10 * acc + DigitVal(Head(s)))

\* Atoi(tok) = [ok, v]: an optional sign followed by one or more digits.
Atoi(tok) ==
  LET signed == tok # <<>> /\ Head(tok) \in {"+", "-"}
      digits == IF signed THEN Tail(tok) ELSE tok
      wellformed == digits # <<>> /\ \A k \in 1..Len(digits) : IsDigit(digits[k])
      mag == DigitsVal(digits, 0)
  IN IF ~wellformed THEN [ok |-> FALSE, v |-> 0]
     ELSE [ok |-> TRUE, v |-> IF signed /\ Head(tok) = "-" THEN 0 - mag ELSE mag]

\* ------------------------------------------------------------------ state
VARIABLES
  texts,    \* p.texts: the snippets, oldest first
  disk,     \* the cache file p.cacheFile: <<>> if it is missing or holds no
            \* complete gob message, else <<contents>>
  now,      \* the wall clock read by time.Now(); it advances between two appends
  running,  \* FALSE once a goroutine has panicked and the process has died
  lastOp,   \* the surface that handled the last request
  sent,     \* the bytes the client of the last request sent in all
  buf,      \* buf[:n], the bytes the handler's single c.Read returned
  res,      \* <<>> or <<r>>: what toIdx returned in the last request
  access,   \* <<>> or <<[idx, len]>>: the index used on p.texts and len(p.texts)
  wrote,    \* "none", "ok" or "failed": the os.Create of the last request
  reply,    \* the raw bytes written to the connection (get, unknown command)
  rows,     \* the table written to the connection (list, grep)
  mutex,    \* p.mutex: 0 when free, else the goroutine that holds it
  conns     \* the handler goroutines, each at a place of its handler

vars == <<texts, disk, now, running, lastOp, sent, buf, res, access, wrote, reply, rows,
          mutex, conns>>

\* what the last request did, as the clients see it
obs == <<lastOp, sent, buf, res, access, wrote, reply, rows>>

\* A goroutine: the handler it runs, the place it is at, the bytes it
\* carries, and the cache file as it was when its os.Create truncated it.
Conns == 1..MaxConns
Idle == [kind |-> "idle", pc |-> "idle", buf |-> <<>>, old |-> <<>>]

\* ---------------------------------------------------------- type entry
\* time.Now() carries a wall-clock reading and a monotonic reading;
\* the zero time.Time has neither.
TimeNow == [wall |-> now, mono |-> TRUE]
ZeroTime == [wall |-> -1, mono |-> FALSE]
ZeroEntry == [Text |-> <<>>, When |-> ZeroTime]

\* ---------------------------------------------------------- encoding/gob
\* A struct is sent as the sequence of its non-zero fields, each with its
\* field number; time.Time is sent through MarshalBinary, which keeps the
\* wall-clock instant and drops the monotonic reading.
\* the encoding with the field When left out
GobEncodeEntryNoWhen(e) ==
  IF e.Text = <<>> THEN <<>> ELSE << <<1, e.Text>> >>

GobEncodeEntry(e) ==
  (IF e.Text = <<>> THEN <<>> ELSE << <<1, e.Text>> >>)
  \o (IF e.When = ZeroTime THEN <<>> ELSE << <<2, e.When.wall>> >>)

GobEncode(ts) == [i \in 1..Len(ts) |-> GobEncodeEntry(ts[i])]

RECURSIVE DecodeFields(_, _)
DecodeFields(fs, e) ==
  IF fs = <<>> THEN e
  ELSE LET f == Head(fs)
       IN DecodeFields(Tail(fs),
            IF f[1] = 1 THEN [e EXCEPT !.Text = f[2]]
            ELSE [e EXCEPT !.When = [wall |-> f[2], mono |-> FALSE]])

GobDecodeEntry(fs) == DecodeFields(fs, ZeroEntry)

GobDecode(data) == [i \in 1..Len(data) |-> GobDecodeEntry(data[i])]

\* main: os.Open(p.cacheFile) and Decode(&p.texts); p.texts stays nil
\* when the file cannot be opened.
Load(d) == IF d = <<>> THEN <<>> ELSE GobDecode(d[1])

\* ------------------------------------------------------------ net.Conn
\* One c.Read(buf) returns the bytes of the first segment that arrived,
\* k of them, and never more than the buffer holds; n = 0 with an error
\* (EOF, or the read deadline) when the client sent nothing.
Read(payload, k) == SubSeq(payload, 1, Min(Min(k, Len(payload)), BufSize))

Chunks(payload) == IF payload = <<>> THEN {0} ELSE 1..Len(payload)

\* ------------------------------------------------------------- inputs
WritePayloads ==
  { <<>>,
    <<"\n", "xC3", "xA9">>,
    <<"xFF">> }

\* r.Form["text"]: no value (field absent) or one value
PasteForms == { <<>>, << <<"xFF">> >> }
Methods == {"GET", "POST"}

GET == <<"g", "e", "t">>
DROP == <<"d", "r", "o", "p">>
LIST == <<"l", "i", "s", "t">>
GREP == <<"g", "r", "e", "p">>
SP == <<" ">>
NL == <<"\n">>

\* strconv.Itoa for the integers of one digit
Digit(v) == <<"0", "1", "2", "3", "4", "5", "6", "7", "8", "9">>[v + 1]
Itoa(v) == IF v < 0 THEN <<"-", Digit(0 - v)>> ELSE <<Digit(v)>>

\* the index arguments: every integer around the range of valid indices,
\* and tokens that are signed or not integers at all
IndexTokens ==
  { Itoa(v) : v \in (0 - (MaxTexts + 1))..MaxTexts }
  \cup { <<"+", "1">>, <<"-", "0">>, <<"x">>, <<"1", "x">> }

\* What the single c.Read of handleReadPaste returns: <<>> for a client
\* that stays silent until the deadline, else the first segment it sent.
ReadRequests ==
  { <<>>, SP, GET \o NL, DROP \o NL, LIST \o NL,
    GET \o SP \o <<"0">> \o NL,
    GET \o SP \o <<"-", "1">> \o NL,
    DROP \o SP \o <<"0">> \o NL,
    DROP \o SP \o <<"1">> \o NL,
    GREP \o NL,
    GREP \o SP \o <<"xC3", "xA9">> \o NL,
    GREP \o SP \o <<"a">> \o NL,
    <<"f", "o", "o">> \o NL }

\* The requests that name an index, for every index argument.
IndexRequests ==
  { c \o SP \o t \o NL : c \in {GET, DROP}, t \in IndexTokens }

UnknownNotice ==
  <<"#", " ", "U", "n", "k", "n", "o", "w", "n", " ",
    "c", "o", "m", "m", "a", "n", "d", "\n">>

\* ------------------------------------------------- handleReadPaste: toIdx
\* toIdx with the offset from the end tested by n + v > 0
toIdxOffByOne(cmd, n) ==
  IF Len(cmd) = 1 THEN [ok |-> TRUE, idx |-> n - 1]
  ELSE LET a == Atoi(cmd[2])
       IN IF a.ok /\ a.v >= 0 /\ a.v < n THEN [ok |-> TRUE, idx |-> a.v]
          ELSE IF a.ok /\ a.v <= 0 /\ n + a.v > 0 THEN [ok |-> TRUE, idx |-> n + a.v]
          ELSE [ok |-> FALSE, idx |-> 0]

\* cmd is the request split into fields, n is len(p.texts).
toIdx(cmd, n) ==
  IF Len(cmd) = 1 THEN [ok |-> TRUE, idx |-> n - 1]
  ELSE LET a == Atoi(cmd[2])
       IN IF a.ok /\ a.v >= 0 /\ a.v < n THEN [ok |-> TRUE, idx |-> a.v]
          ELSE IF a.ok /\ a.v <= 0 /\ n + a.v >= 0 THEN [ok |-> TRUE, idx |-> n + a.v]
          ELSE [ok |-> FALSE, idx |-> 0]

\* p.texts[i] and p.texts[:i], p.texts[i+1:] panic unless 0 <= i < len(p.texts)
InRange(i, ts) == 0 <= i /\ i < Len(ts)

\* the drop with i taken as counted from 1
DropAtFromOne(ts, i) == SubSeq(ts, 1, i - 1) \o SubSeq(ts, i + 1, Len(ts))

\* append(p.texts[:i], p.texts[i+1:]...), i counted from 0
DropAt(ts, i) == SubSeq(ts, 1, i) \o SubSeq(ts, i + 2, Len(ts))

\* humanize.Time(when): the age of the snippet relative to time.Now()
Humanize(when, clock) == clock - when.wall

\* the list written newest first, as showPastry does
ListRowsNewestFirst(ts, clock) ==
  [k \in 1..Len(ts) |->
     [idx |-> k - 1, age |-> Humanize(ts[Len(ts) + 1 - k].When, clock),
      text |-> Trim(ts[Len(ts) + 1 - k].Text)]]

\* case "list": one row per snippet, i counted from 0
ListRows(ts, clock) ==
  [k \in 1..Len(ts) |->
     [idx |-> k - 1, age |-> Humanize(ts[k].When, clock), text |-> Trim(ts[k].Text)]]

\* the inner loop writing num, not num + 1, as the line number
RECURSIVE GrepLinesFromZero(_, _, _, _, _)
GrepLinesFromZero(i, lines, num, m, age) ==
  IF num >= Len(lines) THEN <<>>
  ELSE LET l == lines[num + 1]
       IN (IF Index(l, m) # -1
           THEN << [idx |-> i, line |-> num, age |-> age, text |-> l] >>
           ELSE <<>>)
          \o GrepLinesFromZero(i, lines, num + 1, m, age)

\* case "grep": the inner loop over the lines of snippet i, num counted from 0
RECURSIVE GrepLines(_, _, _, _, _)
GrepLines(i, lines, num, m, age) ==
  IF num >= Len(lines) THEN <<>>
  ELSE LET l == lines[num + 1]
       IN (IF Index(l, m) # -1
           THEN << [idx |-> i, line |-> num + 1, age |-> age, text |-> l] >>
           ELSE <<>>)
          \o GrepLines(i, lines, num + 1, m, age)

\* case "grep": the outer loop over p.texts
RECURSIVE GrepFrom(_, _, _, _)
GrepFrom(ts, i, m, clock) ==
  IF i >= Len(ts) THEN <<>>
  ELSE GrepLines(i, SplitLines(ts[i + 1].Text), 0, m, Humanize(ts[i + 1].When, clock))
       \o GrepFrom(ts, i + 1, m, clock)

GrepRows(ts, m, clock) == GrepFrom(ts, 0, m, clock)

\* _, m, _ := strings.Cut(s, "grep ")
GrepTerm(s) == Cut(s, GREP \o SP)[2]

\* The request once read: s, and cmd its fields.
Request(b) == StripNewlines(b)
Cmd(b) == Fields(Request(b))

NoOutcome(ts) ==
  [texts |-> ts, res |-> <<>>, access |-> <<>>, reply |-> <<>>, rows |-> <<>>,
   panic |-> FALSE]

\* p.texts[i].Text written to the connection; an index out of range panics.
GetAt(ts, r) ==
  IF ~r.ok THEN [NoOutcome(ts) EXCEPT !.res = <<r>>]
  ELSE IF InRange(r.idx, ts)
       THEN [NoOutcome(ts) EXCEPT !.res = <<r>>,
                                  !.access = << [idx |-> r.idx, len |-> Len(ts)] >>,
                                  !.reply = ts[r.idx + 1].Text]
  ELSE [NoOutcome(ts) EXCEPT !.res = <<r>>,
                             !.access = << [idx |-> r.idx, len |-> Len(ts)] >>,
                             !.panic = TRUE]

\* the drop that falls back to the last snippet when toIdx fails
DropCaseClamped(ts, r) ==
  IF ~r.ok /\ Len(ts) > 0
  THEN [NoOutcome(ts) EXCEPT !.res = <<r>>, !.texts = DropAt(ts, Len(ts) - 1)]
  ELSE IF ~r.ok THEN [NoOutcome(ts) EXCEPT !.res = <<r>>]
  ELSE IF InRange(r.idx, ts)
       THEN [NoOutcome(ts) EXCEPT !.res = <<r>>,
                                  !.access = << [idx |-> r.idx, len |-> Len(ts)] >>,
                                  !.texts = DropAt(ts, r.idx)]
  ELSE [NoOutcome(ts) EXCEPT !.res = <<r>>,
                             !.access = << [idx |-> r.idx, len |-> Len(ts)] >>,
                             !.panic = TRUE]

\* case "drop"
DropCase(ts, r) ==
  IF ~r.ok THEN [NoOutcome(ts) EXCEPT !.res = <<r>>]
  ELSE IF InRange(r.idx, ts)
       THEN [NoOutcome(ts) EXCEPT !.res = <<r>>,
                                  !.access = << [idx |-> r.idx, len |-> Len(ts)] >>,
                                  !.texts = DropAt(ts, r.idx)]
  ELSE [NoOutcome(ts) EXCEPT !.res = <<r>>,
                             !.access = << [idx |-> r.idx, len |-> Len(ts)] >>,
                             !.panic = TRUE]

\* The body of handleReadPaste after c.Read returned b = buf[:n]
\* (b = <<>> when err != nil || n == 0).
ReadOutcome(b, ts, clock) ==
  LET cmd == Cmd(b)
  IN IF b = <<>>
     THEN [GetAt(ts, [ok |-> TRUE, idx |-> Len(ts) - 1]) EXCEPT !.res = <<>>]
     ELSE IF Len(cmd) = 0 THEN NoOutcome(ts)
     ELSE IF cmd[1] = GET THEN GetAt(ts, toIdx(cmd, Len(ts)))
     ELSE IF cmd[1] = GREP
          THEN [NoOutcome(ts) EXCEPT !.rows = GrepRows(ts, GrepTerm(Request(b)), clock)]
     ELSE IF cmd[1] = LIST
          THEN [NoOutcome(ts) EXCEPT !.rows = ListRows(ts, clock)]
     ELSE IF cmd[1] = DROP THEN DropCase(ts, toIdx(cmd, Len(ts)))
     ELSE [NoOutcome(ts) EXCEPT !.reply = UnknownNotice]

\* ---------------------------------------------------------------- actions
Init ==
  /\ texts = <<>>
  /\ disk = <<>>
  /\ now = 0
  /\ running = TRUE
  /\ lastOp = "init"
  /\ sent = <<>>
  /\ buf = <<>>
  /\ res = <<>>
  /\ access = <<>>
  /\ wrote = "none"
  /\ reply = <<>>
  /\ rows = <<>>
  /\ mutex = 0
  /\ conns = [g \in Conns |-> Idle]

\* the append that keeps the snippet only if the file could be created
AddTextOnlyIfSaved(text, createOk) ==
  /\ Len(texts) < MaxTexts
  /\ now < MaxClock
  /\ now' = now + 1
  /\ texts' = IF createOk THEN Append(texts, [Text |-> text, When |-> TimeNow]) ELSE texts
  /\ disk' = IF createOk THEN << GobEncode(texts') >> ELSE disk
  /\ wrote' = IF createOk THEN "ok" ELSE "failed"

\* pastry.addText: append under the mutex, then rewrite the cache file if
\* os.Create succeeds (createOk).
AddText(text, createOk) ==
  /\ Len(texts) < MaxTexts
  /\ now < MaxClock
  /\ now' = now + 1
  /\ texts' = Append(texts, [Text |-> text, When |-> TimeNow])
  /\ disk' = IF createOk THEN << GobEncode(texts') >> ELSE disk
  /\ wrote' = IF createOk THEN "ok" ELSE "failed"

\* the test of handleWritePaste without utf8.Valid
AcceptsAnyBytes(b) == b # <<>>

\* handleWritePaste: err == nil && n > 0, and utf8.Valid(buf[:n])
Accepts(b) == b # <<>> /\ Valid(b)

\* pastry.handleWritePaste on a connection whose client sends payload, of
\* which the single c.Read returns the first k bytes.
HandleWritePaste(payload, k, createOk) ==
  /\ running
  /\ lastOp' = "write"
  /\ sent' = payload
  /\ buf' = Read(payload, k)
  /\ IF Accepts(buf')
     THEN AddText(buf', createOk)
     ELSE /\ createOk
          /\ UNCHANGED <<texts, disk, now>>
          /\ wrote' = "none"
  /\ res' = <<>>
  /\ access' = <<>>
  /\ reply' = <<>>
  /\ rows' = <<>>
  /\ UNCHANGED <<running, mutex, conns>>

\* pastry.handleReadPaste on a connection whose c.Read returns payload (nothing
\* at all when the client stays silent until the read deadline).  An index out of
\* range panics in the handler's goroutine, which ends the process.
HandleReadPaste(payload) ==
  /\ running
  /\ lastOp' = "read"
  /\ sent' = payload
  /\ buf' = Read(payload, Len(payload))
  /\ LET o == ReadOutcome(buf', texts, now)
     IN /\ texts' = IF o.panic THEN <<>> ELSE o.texts
        /\ running' = ~o.panic
        /\ res' = o.res
        /\ access' = o.access
        /\ reply' = o.reply
        /\ rows' = o.rows
  /\ wrote' = "none"
  /\ UNCHANGED <<disk, now, mutex, conns>>

\* pastry.paste: POST /paste with the values form of the field "text".
\* r.Form["text"][0] panics when the field is absent; net/http recovers the
\* panic of a handler, so the process lives on.
Paste(method, form, createOk) ==
  /\ running
  /\ lastOp' = "paste"
  /\ sent' = IF form = <<>> THEN <<>> ELSE form[1]
  /\ buf' = <<>>
  /\ IF method = "POST" /\ form # <<>>
     THEN AddText(form[1], createOk)
     ELSE /\ createOk
          /\ UNCHANGED <<texts, disk, now>>
          /\ wrote' = "none"
  /\ res' = <<>>
  /\ access' = <<>>
  /\ reply' = <<>>
  /\ rows' = <<>>
  /\ UNCHANGED <<running, mutex, conns>>

\* main: the process is started (again); p.texts is what the cache file holds.
Restart ==
  /\ lastOp' = "restart"
  /\ texts' = Load(disk)
  /\ running' = TRUE
  /\ sent' = <<>>
  /\ buf' = <<>>
  /\ res' = <<>>
  /\ access' = <<>>
  /\ wrote' = "none"
  /\ reply' = <<>>
  /\ rows' = <<>>
  /\ UNCHANGED <<disk, now, mutex, conns>>

Next ==
  \/ \E payload \in WritePayloads : \E k \in Chunks(payload) : \E createOk \in BOOLEAN :
       HandleWritePaste(payload, k, createOk)
  \/ \E payload \in ReadRequests : HandleReadPaste(payload)
  \/ \E method \in Methods : \E form \in PasteForms : \E createOk \in BOOLEAN :
       Paste(method, form, createOk)
  \/ Restart

Spec == Init /\ [][Next]_vars

\* The same program, its clients sending every request that names an index
\* to a store filled from the write port.
NextIdx ==
  \/ \E createOk \in BOOLEAN : HandleWritePaste(<<"xC3", "xA9">>, 2, createOk)
  \/ \E payload \in IndexRequests : HandleReadPaste(payload)
  \/ Restart

SpecIdx == Init /\ [][NextIdx]_vars

\* The same program, its clients sending grep requests, and others, to a
\* store of snippets of one and two lines.
TAB == <<"\t">>

GrepRequests ==
  { GREP \o NL,
    GREP \o SP \o <<"a">> \o NL,
    GREP \o SP \o <<"a", " ", "b">> \o NL,
    GREP \o TAB \o <<"a", " ", "b">> \o NL,
    DROP \o SP \o <<"0">> \o NL,
    <<"f", "o", "o">> \o SP \o <<"a">> \o NL }

NextGrep ==
  \/ \E k \in 1..5 : HandleWritePaste(<<"b", "\n", "a", " ", "b">>, k, TRUE)
  \/ \E payload \in GrepRequests : HandleReadPaste(payload)
  \/ Restart

SpecGrep == Init /\ [][NextGrep]_vars

\* ------------------------------------------------- the handlers step by step
\* The same handlers, one goroutine per accepted connection, each statement
\* that touches p.mutex, p.texts, the cache file or the connection a step.

\* the appends that are accepted and have not reached p.texts yet
Pending ==
  Cardinality({ g \in Conns : conns[g].kind \in {"write", "paste"}
                               /\ conns[g].pc \in {"recv", "lock"} })

\* what the c.Read of a command connection returns in this specification
LockRequests == { <<>>, GET \o NL, DROP \o NL, LIST \o NL }

\* main: go p.handleWritePaste(c), go p.handleReadPaste(c), and net/http
\* calling p.paste and p.showPastry; g is the goroutine started.
Accept(g, kind) ==
  /\ running
  /\ conns[g].kind = "idle"
  /\ kind \in {"write", "paste"} =>
       (now + Pending < MaxClock /\ Len(texts) + Pending < MaxTexts)
  /\ conns' = [conns EXCEPT ![g] =
       [kind |-> kind,
        pc |-> IF kind = "write" THEN "recv" ELSE "lock",
        buf |-> IF kind = "paste" THEN <<"xFF">> ELSE <<>>,
        old |-> <<>>]]
  /\ UNCHANGED <<texts, disk, now, running, mutex, obs>>

\* handleWritePaste: c.Read(buf), no deadline; the mutex is not held.
WriteRecv(g, payload, k) ==
  /\ running
  /\ conns[g].kind = "write" /\ conns[g].pc = "recv"
  /\ LET b == Read(payload, k)
     IN conns' = [conns EXCEPT ![g] =
          IF Accepts(b) THEN [@ EXCEPT !.pc = "lock", !.buf = b] ELSE Idle]
  /\ UNCHANGED <<texts, disk, now, running, mutex, obs>>

\* p.mutex.Lock() taken although another goroutine holds the mutex
LockNoWait(g) ==
  /\ running
  /\ conns[g].pc = "lock"
  /\ mutex' = g
  /\ conns' = [conns EXCEPT ![g].pc =
       CASE conns[g].kind = "read" -> "wait"
         [] conns[g].kind = "show" -> "render"
         [] OTHER -> "append"]
  /\ UNCHANGED <<texts, disk, now, running, obs>>

\* p.mutex.Lock() in addText, handleReadPaste and showPastry
Lock(g) ==
  /\ running
  /\ conns[g].pc = "lock"
  /\ mutex = 0
  /\ mutex' = g
  /\ conns' = [conns EXCEPT ![g].pc =
       CASE conns[g].kind = "read" -> "wait"
         [] conns[g].kind = "show" -> "render"
         [] OTHER -> "append"]
  /\ UNCHANGED <<texts, disk, now, running, obs>>

\* addText: p.texts = append(p.texts, &entry{...})
AppendEntry(g) ==
  /\ running
  /\ conns[g].pc = "append"
  /\ texts' = Append(texts, [Text |-> conns[g].buf, When |-> TimeNow])
  /\ now' = now + 1
  /\ conns' = [conns EXCEPT ![g].pc = "create"]
  /\ UNCHANGED <<disk, running, mutex, obs>>

\* addText: os.Create(p.cacheFile) truncates the file when it succeeds
CreateFile(g, createOk) ==
  /\ running
  /\ conns[g].pc = "create"
  /\ disk' = IF createOk THEN <<>> ELSE disk
  /\ conns' = [conns EXCEPT ![g] =
       IF createOk THEN [@ EXCEPT !.pc = "encode", !.old = disk]
       ELSE [@ EXCEPT !.pc = "unlock"]]
  /\ UNCHANGED <<texts, now, running, mutex, obs>>

\* addText: gob.NewEncoder(f).Encode(p.texts); f.Close()
EncodeFile(g) ==
  /\ running
  /\ conns[g].pc = "encode"
  /\ disk' = << GobEncode(texts) >>
  /\ conns' = [conns EXCEPT ![g].pc = "unlock"]
  /\ UNCHANGED <<texts, now, running, mutex, obs>>

\* handleReadPaste: c.Read(buf) under the read deadline returns b, and the
\* request is served; the mutex has been held since before the read.
ReadWait(g, b) ==
  /\ conns[g].kind = "read" /\ conns[g].pc = "wait"
  /\ running
  /\ LET o == ReadOutcome(b, texts, now)
     IN /\ texts' = IF o.panic THEN <<>> ELSE o.texts
        /\ running' = ~o.panic
  /\ conns' = [conns EXCEPT ![g] = [@ EXCEPT !.pc = "unlock", !.buf = b]]
  /\ UNCHANGED <<disk, now, mutex, obs>>

\* showPastry: the loop over p.texts and p.tmpl.Execute
Render(g) ==
  /\ running
  /\ conns[g].pc = "render"
  /\ conns' = [conns EXCEPT ![g].pc = "unlock"]
  /\ UNCHANGED <<texts, disk, now, running, mutex, obs>>

\* the deferred p.mutex.Unlock(), and the handler returns
Unlock(g) ==
  /\ running
  /\ conns[g].pc = "unlock"
  /\ mutex' = 0
  /\ conns' = [conns EXCEPT ![g] = Idle]
  /\ UNCHANGED <<texts, disk, now, running, obs>>

\* The process is killed wherever its goroutines are, and started again:
\* main loads the cache file.
CrashRestart ==
  /\ texts' = Load(disk)
  /\ running' = TRUE
  /\ mutex' = 0
  /\ conns' = [g \in Conns |-> Idle]
  /\ UNCHANGED <<disk, now, obs>>

Step(g) ==
  \/ \E kind \in {"write", "read", "paste", "show"} : Accept(g, kind)
  \/ \E k \in 1..2 : WriteRecv(g, <<"xC3", "xA9">>, k)
  \/ Lock(g)
  \/ AppendEntry(g)
  \/ \E createOk \in BOOLEAN : CreateFile(g, createOk)
  \/ EncodeFile(g)
  \/ \E b \in LockRequests : ReadWait(g, b)
  \/ Render(g)
  \/ Unlock(g)

NextLock ==
  \/ \E g \in Conns : Step(g)
  \/ CrashRestart

SpecLock == Init /\ [][NextLock]_vars

\* The handlers left to run, no process killed from outside.  The requests
\* are those that index nothing on an empty store, and the silent client.
LiveRequests == { <<>>, LIST \o NL, DROP \o SP \o <<"-", "1">> \o NL }

StepLive(g) ==
  \/ \E kind \in {"write", "read", "paste", "show"} : Accept(g, kind)
  \/ \E k \in 1..2 : WriteRecv(g, <<"xC3", "xA9">>, k)
  \/ Lock(g)
  \/ AppendEntry(g)
  \/ \E createOk \in BOOLEAN : CreateFile(g, createOk)
  \/ EncodeFile(g)
  \/ \E b \in LiveRequests : ReadWait(g, b)
  \/ Render(g)
  \/ Unlock(g)

NextLive == \E g \in Conns : StepLive(g)

\* A goroutine that can run does run; sync.Mutex hands the mutex to every
\* waiter in the end (starvation mode); the read deadline ends every wait
\* of handleReadPaste.  Nothing makes a client connect or send.
Fairness ==
  \A g \in Conns :
    /\ SF_vars(Lock(g))
    /\ WF_vars(AppendEntry(g))
    /\ WF_vars(\E createOk \in BOOLEAN : CreateFile(g, createOk))
    /\ WF_vars(EncodeFile(g))
    /\ WF_vars(\E b \in LiveRequests : ReadWait(g, b))
    /\ WF_vars(Render(g))
    /\ WF_vars(Unlock(g))

SpecLive == Init /\ [][NextLive]_vars /\ Fairness

\* ================================================================ claims
\* What the last request was, read off the bytes its handler received.
IsRead(op, b) == op = "read" /\ b # <<>> /\ Cmd(b) # <<>>
IsCommand(op, b, c) == IsRead(op, b) /\ Cmd(b)[1] = c

\* ts is ps with the element at position i (counted from 0) taken out
IsRemoval(ps, ts, i) ==
  /\ Len(ts) = Len(ps) - 1
  /\ \A j \in 0..(Len(ps) - 1) :
       /\ j < i => ts[j + 1] = ps[j + 1]
       /\ j > i => ts[j] = ps[j + 1]

\* ---- C1
\* C1: list writes one row per stored snippet, oldest first, numbered
\* 0..length-1; the snippets are held in insertion order; every step other
\* than a restart leaves the collection as it is, appends one snippet at the
\* end, or takes one snippet out, so that no stored text or timestamp ever
\* changes and no two snippets change places.
C1_Oldest ==
  \A i, j \in 1..Len(texts) : i < j => texts[i].When.wall < texts[j].When.wall

C1_ListShowsStore ==
  IsCommand(lastOp, buf, LIST) =>
    /\ Len(rows) = Len(texts)
    /\ \A k \in 1..Len(texts) :
         /\ rows[k].idx = k - 1
         /\ rows[k].text = Trim(texts[k].Text)
         /\ rows[k].age = now - texts[k].When.wall

C1_Step ==
  lastOp' # "restart" =>
    \/ texts' = texts
    \/ /\ Len(texts') = Len(texts) + 1
       /\ SubSeq(texts', 1, Len(texts)) = texts
    \/ \E i \in 0..(Len(texts) - 1) : IsRemoval(texts, texts', i)

C1_ListInsertionOrder ==
  /\ [](C1_Oldest /\ C1_ListShowsStore)
  /\ [][C1_Step]_vars

\* a list of two snippets of which the older one was not the first ever added
C1_Witness ==
  /\ IsCommand(lastOp, buf, LIST)
  /\ Len(rows) = 2
  /\ rows[1].idx = 0 /\ rows[2].idx = 1
  /\ rows[1].age > rows[2].age
  /\ rows[1].text # rows[2].text
  /\ texts[1].When.wall > 0

\* ---- C2
\* The integer an index argument denotes, for the arguments that denote one.
TokenValues ==
  { <<Itoa(v), v>> : v \in (0 - (MaxTexts + 1))..MaxTexts }
  \cup { << <<"+", "1">>, 1 >>, << <<"-", "0">>, 0 >> }

IsInteger(tok) == \E tv \in TokenValues : tv[1] = tok
ValueOf(tok) == (CHOOSE tv \in TokenValues : tv[1] = tok)[2]

Resolved(r, i) == r.ok /\ r.idx = i

\* The request of this step names an index explicitly.
ExplicitIndexStep ==
  /\ running
  /\ lastOp' = "read"
  /\ buf' # <<>>
  /\ Len(Cmd(buf')) >= 2
  /\ Cmd(buf')[1] \in {GET, DROP}
  /\ Len(res') = 1

\* C2 (as stated): on a store of length L an explicit v with 0 <= v < L
\* resolves to v, a v with v <= 0 and L + v >= 0 resolves to L + v, and
\* every other integer and every non-integer token is out of bounds.
C2_Stated_Step ==
  ExplicitIndexStep =>
    LET tok == Cmd(buf')[2]
        L == Len(texts)
        r == res'[1]
    IN IF ~IsInteger(tok) THEN ~r.ok
       ELSE LET v == ValueOf(tok)
            IN /\ (0 <= v /\ v < L) => Resolved(r, v)
               /\ (v <= 0 /\ L + v >= 0) => Resolved(r, L + v)
               /\ (~(0 <= v /\ v < L) /\ ~(v <= 0 /\ L + v >= 0)) => ~r.ok

C2_Stated == [][C2_Stated_Step]_vars

\* C2 (amended): on a store of length L an explicit v with 0 <= v < L
\* resolves to v; a v not resolved by that rule, with v <= 0 and L + v >= 0
\* (a negative v, or 0 on the empty store), resolves to L + v; every other
\* integer and every non-integer token is out of bounds.
C2_Amended_Step ==
  ExplicitIndexStep =>
    LET tok == Cmd(buf')[2]
        L == Len(texts)
        r == res'[1]
    IN IF ~IsInteger(tok) THEN ~r.ok
       ELSE LET v == ValueOf(tok)
            IN IF 0 <= v /\ v < L THEN Resolved(r, v)
               ELSE IF v <= 0 /\ L + v >= 0 THEN Resolved(r, L + v)
               ELSE ~r.ok

C2_ResolveIndex == [][C2_Amended_Step]_vars

\* get -1 on a store of two snippets wrote the text of the latest one
C2_Witness ==
  /\ lastOp = "read"
  /\ Cmd(buf) = <<GET, <<"-", "1">>>>
  /\ Len(texts) = 2
  /\ res = << [ok |-> TRUE, idx |-> 1] >>
  /\ reply = texts[2].Text

\* ---- C3
\* C3: the index a get or a drop (explicit or implicit) uses on the
\* collection is within 0 <= index < length of the collection at that time.
C3_IndexInBounds ==
  \A k \in 1..Len(access) : 0 <= access[k].idx /\ access[k].idx < access[k].len

\* ---- C4
\* C4: a drop that resolves to a valid index i shortens the collection by
\* one, leaves the snippets before i where they were and moves every snippet
\* after i down by one; without an argument, on a store that holds
\* something, i is the last index.
C4_Step ==
  (running /\ IsCommand(lastOp', buf', DROP) /\ Len(res') = 1) =>
    LET r == res'[1]
        L == Len(texts)
    IN /\ (r.ok /\ 0 <= r.idx /\ r.idx < L) => IsRemoval(texts, texts', r.idx)
       /\ (Len(Cmd(buf')) = 1 /\ L > 0) => Resolved(r, L - 1)

C4_DropShifts == [][C4_Step]_vars

\* drop 0 on a store of two snippets: the second one is now at index 0
C4_Witness ==
  /\ lastOp = "read"
  /\ Cmd(buf) = <<DROP, <<"0">>>>
  /\ access = << [idx |-> 0, len |-> 2] >>
  /\ Len(texts) = 1
  /\ texts[1].When.wall > 0

\* ---- C5
\* The same snippets in the same order: equal texts, equal instants.
SameSnippets(a, b) ==
  /\ Len(a) = Len(b)
  /\ \A k \in 1..Len(a) :
       /\ a[k].Text = b[k].Text
       /\ a[k].When.wall = b[k].When.wall

\* The last request changed the collection and no disk write of it failed.
MutationDone ==
  /\ running
  /\ \/ lastOp \in {"write", "paste"} /\ wrote = "ok"
     \/ IsCommand(lastOp, buf, DROP) /\ access # <<>>

\* C5: once an append or a drop has completed, no disk write having failed,
\* the cache file holds the current collection: loading it gives the
\* snippets the store holds, in the same order.
C5_PersistFollowsMutation ==
  MutationDone => SameSnippets(Load(disk), texts)

\* ---- C6
\* C6: what a load gives for a saved collection is the collection that was
\* saved, snippet by snippet: same length, same order, same text and same
\* instant; so a restart right after a successful save changes no snippet.
C6_Pure == SameSnippets(Load(<< GobEncode(texts) >>), texts)

C6_Step == (lastOp' = "restart" /\ wrote = "ok") => SameSnippets(texts', texts)

C6_SaveLoadRoundTrip == [](C6_Pure) /\ [][C6_Step]_vars

\* a restart that loaded two different snippets from the file
C6_Witness ==
  /\ lastOp = "restart"
  /\ disk # <<>>
  /\ Len(texts) = 2
  /\ texts[1].Text # texts[2].Text
  /\ texts[1].When.wall < texts[2].When.wall
  /\ ~texts[2].When.mono

\* ---- C7
\* m occurs in l as a run of consecutive bytes
IsSubstring(m, l) ==
  \E q \in 0..(Len(l) - Len(m)) : SubSeq(l, q + 1, q + Len(m)) = m

\* the term of a request "grep <term>": what follows the command and one space
TermOf(b) == SubSeq(Request(b), Len(GREP) + 2, Len(Request(b)))

\* the (snippet index, line number) pairs of the lines that hold m
MatchesOf(ts, m) ==
  UNION { { <<i, n>> : n \in { x \in 1..Len(SplitLines(ts[i + 1].Text)) :
                                 IsSubstring(m, SplitLines(ts[i + 1].Text)[x]) } } :
          i \in 0..(Len(ts) - 1) }

PairBefore(a, b) == a.idx < b.idx \/ (a.idx = b.idx /\ a.line < b.line)

\* C7: grep writes one row for each (snippet index, line number) whose line
\* holds the term, and no other row, by increasing index and then increasing
\* line number, each row showing its line; it changes neither the collection
\* nor the file.
C7_Rows ==
  IsCommand(lastOp, buf, GREP) =>
    /\ { <<rows[k].idx, rows[k].line>> : k \in 1..Len(rows) } = MatchesOf(texts, TermOf(buf))
    /\ \A k \in 1..(Len(rows) - 1) : PairBefore(rows[k], rows[k + 1])
    /\ \A k \in 1..Len(rows) :
         rows[k].text = SplitLines(texts[rows[k].idx + 1].Text)[rows[k].line]

C7_Step == IsCommand(lastOp', buf', GREP) => (texts' = texts /\ disk' = disk)

C7_GrepExact == [](C7_Rows) /\ [][C7_Step]_vars

\* a grep whose only match is the second line of the second snippet
C7_Witness ==
  /\ IsCommand(lastOp, buf, GREP)
  /\ TermOf(buf) = <<"xC3", "xA9">>
  /\ Len(texts) = 2
  /\ Len(rows) = 1
  /\ rows[1].idx = 1 /\ rows[1].line = 2

\* ---- C8
\* C8: a write-port connection whose client sent a valid-text payload no
\* larger than the buffer has added the whole payload as the last snippet.
C8_WholePayloadStored ==
  (lastOp = "write" /\ sent # <<>> /\ Valid(sent) /\ Len(sent) <= BufSize) =>
    (Len(texts) > 0 /\ texts[Len(texts)].Text = sent)

\* ---- C9
\* C9: when the bytes the write port received are not valid text, the
\* collection and the file are as they were, nothing is written to the
\* client and the process goes on.
C9_Step ==
  (lastOp' = "write" /\ buf' # <<>> /\ ~Valid(buf')) =>
    /\ texts' = texts
    /\ disk' = disk
    /\ wrote' = "none"
    /\ reply' = <<>> /\ rows' = <<>>
    /\ running'

C9_InvalidIngestIgnored == [][C9_Step]_vars

\* invalid bytes arrived at a store that holds a snippet, and it still does
C9_Witness ==
  /\ lastOp = "write"
  /\ buf # <<>> /\ ~Valid(buf)
  /\ Len(texts) >= 1
  /\ disk # <<>>

\* ---- C10
\* C10: every snippet in the store is valid text.
C10_StoredTextValid == \A k \in 1..Len(texts) : Valid(texts[k].Text)


\* ---- C11
\* C11: when the read of the command port returns nothing (deadline, EOF),
\* the handler answers as a get without argument and returns: it has written
\* the text of the latest snippet if there is one and nothing if there is
\* none, and no table.
C11_ImplicitGet ==
  (lastOp = "read" /\ buf = <<>>) =>
    /\ running
    /\ rows = <<>>
    /\ reply = IF Len(texts) > 0 THEN texts[Len(texts)].Text ELSE <<>>

\* ---- C12
\* C12: for a get or a drop without argument toIdx gives the last index of
\* a store that holds something and an error on the empty store, so that on
\* the empty store nothing is indexed.
C12_NoArgument ==
  (IsRead(lastOp, buf) /\ Cmd(buf)[1] \in {GET, DROP} /\ Len(Cmd(buf)) = 1
     /\ Len(res) = 1 /\ res[1].ok) =>
    /\ Len(access) = 1
    /\ access[1].len > 0
    /\ res[1].idx = access[1].len - 1

\* ---- C14
\* C14: whatever the clients of the write port and of the command port have
\* sent, the process is alive.
C14_ProcessSurvives == running

\* ---- C17
\* The argument tok names no index of a store of length L.
FailsToResolve(tok, L) ==
  \/ ~IsInteger(tok)
  \/ /\ IsInteger(tok)
     /\ \/ ValueOf(tok) > 0 /\ ValueOf(tok) >= L
        \/ ValueOf(tok) < 0 /\ L + ValueOf(tok) < 0

\* C17: a get or a drop whose argument is no integer, or an integer that
\* names no snippet, writes nothing and removes nothing: reply, collection
\* and file are as before and the handler returns.
C17_Step ==
  (ExplicitIndexStep /\ FailsToResolve(Cmd(buf')[2], Len(texts))) =>
    /\ ~res'[1].ok
    /\ access' = <<>>
    /\ reply' = <<>> /\ rows' = <<>>
    /\ texts' = texts
    /\ disk' = disk
    /\ running'

C17_FailureSwallowed == [][C17_Step]_vars

\* drop 2 on a store of two snippets, both still there
C17_Witness ==
  /\ lastOp = "read"
  /\ Cmd(buf) = <<DROP, <<"2">>>>
  /\ res = << [ok |-> FALSE, idx |-> 0] >>
  /\ Len(texts) = 2
  /\ reply = <<>>

\* ---- C18
\* C18: an append whose os.Create failed has still put its snippet at the
\* end of the collection, left the file alone, written nothing to the client
\* and kept the process going; an append whose os.Create succeeded has
\* written the whole current collection, earlier unsaved snippets included.
C18_Step ==
  /\ (lastOp' \in {"write", "paste"} /\ wrote' = "failed") =>
       /\ Len(texts') = Len(texts) + 1
       /\ SubSeq(texts', 1, Len(texts)) = texts
       /\ texts'[Len(texts')].Text = (IF lastOp' = "write" THEN buf' ELSE sent')
       /\ disk' = disk
       /\ reply' = <<>> /\ rows' = <<>>
       /\ running'
  /\ (lastOp' \in {"write", "paste"} /\ wrote' = "ok") =>
       SameSnippets(Load(disk'), texts')

C18_PersistFailureTolerated == [][C18_Step]_vars

\* the file holds one snippet, the store two: the last save failed
C18_Witness ==
  /\ lastOp \in {"write", "paste"}
  /\ wrote = "failed"
  /\ running
  /\ Len(texts) = 2
  /\ Len(Load(disk)) = 1


\* ---- C13
\* The goroutine is between p.mutex.Lock() and p.mutex.Unlock().
Inside(g) == conns[g].pc \in {"wait", "render", "append", "create", "encode", "unlock"}

C13_Exclusion ==
  \A g \in Conns : Inside(g) =>
    /\ mutex = g
    /\ \A h \in Conns : Inside(h) => h = g

C13_Step ==
  (texts' # texts \/ disk' # disk) =>
    \/ \E g \in Conns :
         /\ Inside(g) /\ mutex = g
         /\ conns'[g] # conns[g]
         /\ \A h \in Conns \ {g} : conns'[h] = conns[h] /\ ~Inside(h)
    \/ /\ texts' = Load(disk)
       /\ \A g \in Conns : conns'[g] = Idle

\* C13: at most one goroutine is between Lock and Unlock, and it holds the
\* mutex; every step that changes the collection or the file is a step of
\* that goroutine (or the start of the process), so that no handler sees the
\* store while another one is in the middle of an append or a drop.
C13_Serialized == [](C13_Exclusion) /\ [][C13_Step]_vars

\* an append has truncated the file and not yet written it, while a command
\* connection waits for the mutex
C13_Witness ==
  \E g, h \in Conns :
    /\ conns[g].pc = "encode"
    /\ conns[h].kind = "read" /\ conns[h].pc = "lock"
    /\ Len(texts) = 2

\* ---- C15
\* C15: no handler holds the mutex while it waits in c.Read for the bytes
\* of its client.
C15_NoLockAcrossRead ==
  \A g \in Conns : conns[g].pc \in {"recv", "wait"} => mutex # g

\* ---- C16
\* C16: every operation that waits for the mutex gets it and completes,
\* whatever the clients of the other connections do or fail to do.
C16_WaitersComplete ==
  \A g \in Conns : (conns[g].pc = "lock") ~> (conns[g].pc = "idle")

\* ---- C19
\* C19: when the process is killed between the os.Create and the end of the
\* Encode of a save, the start that follows loads the collection the file
\* held before that save, or the collection as the save would have left it.
C19_Step ==
  \A g \in Conns :
    (conns[g].pc = "encode" /\ running' /\ \A h \in Conns : conns'[h] = Idle) =>
      \/ SameSnippets(texts', Load(conns[g].old))
      \/ SameSnippets(texts', texts)

C19_CrashInSave == [][C19_Step]_vars


\* ---- C20
\* the number of space bytes s begins with
RECURSIVE LeadingSpaces(_)
LeadingSpaces(s) ==
  IF s # <<>> /\ IsSpace(Head(s)) THEN 1 + LeadingSpaces(Tail(s)) ELSE 0

\* What follows the command word and the first space after it, in the
\* request b with its newlines taken out.
StatedTerm(b) ==
  LET s == Request(b)
      start == LeadingSpaces(s) + Len(Cmd(b)[1])
      rest == SubSeq(s, start + 1, Len(s))
      sp == { q \in 1..Len(rest) : rest[q] = " " }
  IN IF sp = {} THEN <<>>
     ELSE SubSeq(rest, (CHOOSE q \in sp : \A r \in sp : q <= r) + 1, Len(rest))

\* C20: a grep request is answered with the matches of the term that
\* follows the command word and the first space after it, spaces inside the
\* term kept; a request whose first word is no command is answered with the
\* unknown-command notice alone.
C20_GrepTerm ==
  /\ IsCommand(lastOp, buf, GREP) =>
       { <<rows[k].idx, rows[k].line>> : k \in 1..Len(rows) }
         = MatchesOf(texts, StatedTerm(buf))
  /\ (IsRead(lastOp, buf) /\ Cmd(buf)[1] \notin {GET, LIST, GREP, DROP}) =>
       (reply = UnknownNotice /\ rows = <<>> /\ running)

====
